---- MODULE Spec2Model ----
(***************************************************************************)
(* Peng3D (TurboWarp extension): named 3D objects that live both in a      *)
(* THREE scene graph and in a CANNON rigid-body world.  The model follows  *)
(* class Peng3D: its registries, the deferral of calls until the engines   *)
(* are loaded, the coalesced render request, the caller-driven physics     *)
(* step and the JSON scene serializer.                                     *)
(*                                                                         *)
(* Numbers are small integers.  Orientation is a yaw about the Y axis in   *)
(* quarter turns (0..3); friction and bounciness are in tenths; time is    *)
(* counted in units of which TicksPerStep make one fixed solver tick.      *)
(* Object identity: a JavaScript reference to an object that has been      *)
(* removed from the registry is written "dead".                            *)
(***************************************************************************)
EXTENDS Integers, Sequences, FiniteSets, TLC

VARIABLES
    objects,          \* this.objects: name -> object
    physicsBodies,    \* this.physicsBodies: name -> body id
    objectPhysData,   \* this.objectPhysData: name -> physics metadata
    bodies,           \* this.world.bodies: body id -> body
    bodyToName,       \* this.bodyToName: body id -> name
    contacts,         \* this.world.contacts: the pairs of bodies found in contact by the last fixed tick
    worldTime,        \* this.world.time, as its phase within a fixed tick
    activeCamera,     \* this.activeCamera
    lastPhysTime,     \* this._lastPhysTime
    renderPending,    \* this.renderPending
    rafCallbacks,     \* requestAnimationFrame callbacks not yet run
    resources,        \* materials and geometries: id -> "live" or "disposed"
    textureLoads,     \* TextureLoader.load callbacks not yet run: the name each was asked for
                      \* and whether the object its closure holds is still registered
    config,           \* this.config: shadows, renderDistance
    loaded,           \* this.loaded
    loadPromise,      \* state of this._loadPromise
    deferred,         \* continuations chained on this._loadPromise
    now,              \* performance.now()
    last,             \* history: the step that ran last
    stepsSinceClear,  \* history: stepPhysics calls since creation / last clear (up to 2)
    executed,         \* history: ids of the deferred calls that have run
    unrendered        \* history: calls that changed the visible scene since the last frame (up to 2)

vars == <<objects, physicsBodies, objectPhysData, bodies, bodyToName, contacts, worldTime,
          activeCamera, lastPhysTime, renderPending, rafCallbacks, resources,
          textureLoads, config, loaded, loadPromise, deferred, now, last, stepsSinceClear, executed, unrendered>>

(***************************************************************************)
(* Bounds of the model                                                     *)
(***************************************************************************)
MaxBodyId == 2
MaxCoord == 3
MaxTime == 4
MaxDeferred == 2
MaxLoads == 1
MaxPause == 46
DefaultRenderDistance == 100

Names == {"A", "B"}
MeshTypes == {"Cube", "Sphere", "Cone", "Cylinder", "Donut"}
Types == MeshTypes \cup {"Light", "Camera"}

(***************************************************************************)
(* Vectors, partial maps                                                   *)
(***************************************************************************)
Vec(x, y, z) == <<x, y, z>>
VZero == <<0, 0, 0>>
VOne == <<1, 1, 1>>
VAdd(a, b) == <<a[1] + b[1], a[2] + b[2], a[3] + b[3]>>
VMul(a, b) == <<a[1] * b[1], a[2] * b[2], a[3] * b[3]>>
Abs(i) == IF i < 0 THEN -i ELSE i
InRange(v) == Abs(v[1]) <= MaxCoord /\ Abs(v[2]) <= MaxCoord /\ Abs(v[3]) <= MaxCoord

\* THREE.Vector3.applyQuaternion for a yaw of q quarter turns about +Y
RotY(q, v) ==
    CASE q % 4 = 0 -> v
      [] q % 4 = 1 -> <<v[3], v[2], -v[1]>>
      [] q % 4 = 2 -> <<-v[1], v[2], -v[3]>>
      [] OTHER     -> <<-v[3], v[2], v[1]>>

Has(f, k) == k \in DOMAIN f
Put(f, k, v) == [x \in DOMAIN f \cup {k} |-> IF x = k THEN v ELSE f[x]]
Del(f, k) == [x \in DOMAIN f \ {k} |-> f[x]]
Empty == [x \in {} |-> 0]

(***************************************************************************)
(* Objects                                                                 *)
(***************************************************************************)
WHITE == 16777215

isMesh(obj) == obj.type \notin {"Light", "Camera"}
isLight(obj) == obj.type = "Light"
isCamera(obj) == obj.type = "Camera"

NoXf == [position |-> VZero, yaw |-> 0, scale |-> VOne]

\* new THREE.Mesh / PointLight / PerspectiveCamera as built by createObject
NewObject(type) ==
    [type     |-> type,
     position |-> VZero,
     yaw      |-> 0,
     scale    |-> VOne,
     color    |-> WHITE,
     material |-> IF type \notin {"Light", "Camera"} THEN "default" ELSE "none",
     \* material.map: a texture has been put on the object's material
     map      |-> FALSE,
     parent   |-> "scene",
     parentXf |-> NoXf,
     \* matrixWorld is the identity until something updates it
     matrixWorld |-> NoXf]

\* the shared default material, the shared geometries, and the private
\* material of the object registered under a name (a clone of the default)
DefaultMaterial == <<"material", "default">>
SharedGeometry(type) == <<"geometry", type>>
CloneOf(name) == <<"material", name>>

\* _initSharedResources: everything shared exists and is not disposed
SharedResources ==
    [id \in {DefaultMaterial} \cup {SharedGeometry(t) : t \in MeshTypes} |-> "live"]

\* obj.geometry and obj.material as resource ids ("none": the object has none)
GeometryOf(obj) == IF isMesh(obj) THEN SharedGeometry(obj.type) ELSE <<"none", "">>
MaterialOf(name, obj) ==
    IF obj.material = "clone" THEN CloneOf(name)
    ELSE IF obj.material = "default" THEN DefaultMaterial
    ELSE <<"none", "">>

\* obj.material = obj.material.clone(): a new material owned by the object
\* variant: the material is edited in place
CloneMaterial_Never(S, name) == S

CloneMaterial(S, name) ==
    IF S.objects[name].material = "default"
    THEN [S EXCEPT !.objects[name].material = "clone",
                   !.resources = Put(@, CloneOf(name), "live")]
    ELSE S

\* the instance fields an operation reads and writes
This ==
    [objects |-> objects, physicsBodies |-> physicsBodies,
     objectPhysData |-> objectPhysData, bodies |-> bodies,
     bodyToName |-> bodyToName, contacts |-> contacts, worldTime |-> worldTime,
     activeCamera |-> activeCamera, lastPhysTime |-> lastPhysTime,
     renderPending |-> renderPending, rafCallbacks |-> rafCallbacks,
     resources |-> resources, textureLoads |-> textureLoads, config |-> config,
     overflow |-> FALSE]

\* variant: a callback is scheduled whether or not one is already pending
_requestRender_Always(S) ==
    [S EXCEPT !.renderPending = TRUE, !.rafCallbacks = @ + 1]

_requestRender(S) ==
    IF S.renderPending THEN S
    ELSE [S EXCEPT !.renderPending = TRUE, !.rafCallbacks = @ + 1]

(***************************************************************************)
(* Object management                                                       *)
(***************************************************************************)
\* the callbacks of setTexture keep the object they were issued for, also
\* once it has left the registry
Orphaned(loads, name) ==
    [i \in DOMAIN loads |->
       IF loads[i].name = name THEN [loads[i] EXCEPT !.held = "disposed"] ELSE loads[i]]

\* variant: the physics cleanup of lines 249-254 is left out
_disposeObject_KeepBody(S, name) ==
    IF ~Has(S.objects, name) THEN S
    ELSE [S EXCEPT
            !.objects = [k \in DOMAIN S.objects \ {name} |->
                           IF S.objects[k].parent = name
                           THEN [S.objects[k] EXCEPT
                                   !.parent = "dead",
                                   !.parentXf = [position |-> S.objects[name].position,
                                                 yaw |-> S.objects[name].yaw,
                                                 scale |-> S.objects[name].scale]]
                           ELSE S.objects[k]],
            !.textureLoads = Orphaned(@, name),
            !.activeCamera = IF @ = name THEN "dead" ELSE @]

\* geometry.dispose() / material.dispose() of _disposeObject
DisposeResources(res, name, obj) ==
    LET isSharedGeo == GeometryOf(obj) \in {SharedGeometry(t) : t \in MeshTypes}
        geo == IF ~isSharedGeo /\ GeometryOf(obj)[1] # "none"
               THEN Put(res, GeometryOf(obj), "disposed") ELSE res
    IN IF MaterialOf(name, obj)[1] # "none" /\ MaterialOf(name, obj) # DefaultMaterial
       THEN Put(geo, MaterialOf(name, obj), "disposed") ELSE geo

\* variant: the material is disposed whether or not it is the shared one
_disposeObject_AnyMaterial(S, name) ==
    IF ~Has(S.objects, name) THEN S
    ELSE [S EXCEPT
            !.objects = [k \in DOMAIN S.objects \ {name} |-> S.objects[k]],
            !.textureLoads = Orphaned(@, name),
            !.resources = IF MaterialOf(name, S.objects[name])[1] # "none"
                          THEN Put(@, MaterialOf(name, S.objects[name]), "disposed")
                          ELSE @]

_disposeObject(S, name) ==
    IF ~Has(S.objects, name) THEN S
    ELSE
      LET obj == S.objects[name]
          hasBody == Has(S.physicsBodies, name)
          id == S.physicsBodies[name]
          \* children keep pointing at the removed node
          rest == [k \in DOMAIN S.objects \ {name} |->
                     IF S.objects[k].parent = name
                     THEN [S.objects[k] EXCEPT
                             !.parent = "dead",
                             !.parentXf = [position |-> obj.position,
                                           yaw |-> obj.yaw,
                                           scale |-> obj.scale]]
                     ELSE S.objects[k]]
      IN [S EXCEPT
            !.objects = rest,
            !.resources = DisposeResources(@, name, obj),
            !.textureLoads = Orphaned(@, name),
            !.bodies = IF hasBody THEN Del(@, id) ELSE @,
            !.bodyToName = IF hasBody THEN Del(@, id) ELSE @,
            \* a contact of a body that has left bodyToName names nobody
            !.contacts = IF hasBody THEN {c \in @ : id \notin c} ELSE @,
            !.physicsBodies = IF hasBody THEN Del(@, name) ELSE @,
            !.objectPhysData = IF hasBody THEN Del(@, name) ELSE @,
            !.activeCamera = IF @ = name THEN "dead" ELSE @]

\* variant: the existing object is overwritten without being disposed
createObjectBody_NoDispose(S, name, type) ==
    _requestRender([S EXCEPT !.objects = Put(@, name, NewObject(type))])

createObjectBody(S, name, type) ==
    LET S1 == IF Has(S.objects, name) THEN _disposeObject(S, name) ELSE S
    IN _requestRender([S1 EXCEPT !.objects = Put(@, name, NewObject(type))])

deleteObjectBody(S, name) == _requestRender(_disposeObject(S, name))

RECURSIVE DisposeAll(_, _)
DisposeAll(S, todo) ==
    IF todo = {} THEN S
    ELSE LET n == CHOOSE x \in todo : TRUE
         IN DisposeAll(_disposeObject(S, n), todo \ {n})

\* variant: the physics clock is not reset
deleteAllObjectsBody_KeepClock(S) ==
    _requestRender([DisposeAll(S, DOMAIN S.objects) EXCEPT !.activeCamera = "null"])

\* variant: the active camera is kept
deleteAllObjectsBody_KeepCamera(S) ==
    _requestRender([DisposeAll(S, DOMAIN S.objects) EXCEPT !.lastPhysTime = 0])

deleteAllObjectsBody(S) ==
    _requestRender([DisposeAll(S, DOMAIN S.objects) EXCEPT
                      !.activeCamera = "null",
                      !.lastPhysTime = 0])

(***************************************************************************)
(* Scene graph: world transform of a node                                  *)
(***************************************************************************)
SwapXZ(v) == <<v[3], v[2], v[1]>>

\* matrixWorld of a child = parent.matrixWorld * child.matrix, for yaw-only
\* rotations and diagonal scales
Compose(P, L) ==
    [position |-> VAdd(P.position, RotY(P.yaw, VMul(P.scale, L.position))),
     yaw      |-> (P.yaw + L.yaw) % 4,
     scale    |-> VMul(IF L.yaw % 2 = 1 THEN SwapXZ(P.scale) ELSE P.scale, L.scale)]

LocalXf(obj) == [position |-> obj.position, yaw |-> obj.yaw, scale |-> obj.scale]

\* TRUE when the parent chain of name never ends (updateWorldMatrix(true)
\* recurses without end and the call throws)
RECURSIVE Cyclic(_, _, _)
Cyclic(objs, name, depth) ==
    LET p == objs[name].parent
    IN IF p \in {"scene", "dead"} THEN FALSE
       ELSE IF depth = 0 THEN TRUE
       ELSE Cyclic(objs, p, depth - 1)

RECURSIVE ParentWorldXf(_, _)
ParentWorldXf(objs, name) ==
    LET obj == objs[name]
    IN IF obj.parent = "scene" THEN NoXf
       ELSE IF obj.parent = "dead" THEN obj.parentXf
       ELSE Compose(ParentWorldXf(objs, obj.parent), LocalXf(objs[obj.parent]))

WorldXf(objs, name) == Compose(ParentWorldXf(objs, name), LocalXf(objs[name]))

\* reachable from the scene root through parent links
RECURSIVE Attached(_, _, _)
Attached(objs, name, depth) ==
    LET p == objs[name].parent
    IN IF p = "scene" THEN TRUE
       ELSE IF p = "dead" \/ depth = 0 THEN FALSE
       ELSE Attached(objs, p, depth - 1)

\* the nodes above name, and the nodes below it
RECURSIVE Ancestors(_, _, _)
Ancestors(objs, name, depth) ==
    LET p == objs[name].parent
    IN IF p \in {"scene", "dead"} \/ depth = 0 THEN {}
       ELSE {p} \cup Ancestors(objs, p, depth - 1)

Descendants(objs, name) ==
    {n \in DOMAIN objs : name \in Ancestors(objs, n, Cardinality(DOMAIN objs))}

\* Object3D.updateMatrixWorld on the nodes in set: matrixWorld is computed
\* anew from the local transforms; every other node keeps the matrixWorld
\* of its last update
UpdateMatrixWorld(objs, set) ==
    [n \in DOMAIN objs |->
       IF n \in set /\ ~Cyclic(objs, n, Cardinality(DOMAIN objs))
       THEN [objs[n] EXCEPT !.matrixWorld = WorldXf(objs, n)]
       ELSE objs[n]]

\* renderer.render(scene, camera) updates the whole scene graph
RenderedObjects(objs) ==
    UpdateMatrixWorld(objs, {n \in DOMAIN objs : Attached(objs, n, Cardinality(DOMAIN objs))})

(***************************************************************************)
(* Transforms                                                              *)
(***************************************************************************)
\* variant: the body is moved but keeps its velocity
_updatePhysicsTransform_KeepVelocity(S, name) ==
    IF Has(S.physicsBodies, name) /\ Has(S.objects, name)
    THEN [S EXCEPT !.bodies[S.physicsBodies[name]] = [@ EXCEPT
                     !.position = S.objects[name].position,
                     !.quaternion = S.objects[name].yaw]]
    ELSE S

_updatePhysicsTransform(S, name) ==
    IF Has(S.physicsBodies, name) /\ Has(S.objects, name)
    THEN LET id == S.physicsBodies[name]
             obj == S.objects[name]
         IN [S EXCEPT !.bodies[id] = [@ EXCEPT
                        !.position = obj.position,
                        !.quaternion = obj.yaw,
                        !.velocity = VZero,
                        !.angularVelocity = 0]]
    ELSE S

\* variant: the position is set but no render is requested
setPosBody_NoRender(S, name, v) ==
    IF ~Has(S.objects, name) THEN S
    ELSE _updatePhysicsTransform([S EXCEPT !.objects[name].position = v], name)

setPosBody(S, name, v) ==
    IF ~Has(S.objects, name) THEN S
    ELSE _requestRender(_updatePhysicsTransform(
           [S EXCEPT !.objects[name].position = v], name))

changePositionBody(S, name, v) ==
    IF ~Has(S.objects, name) THEN S
    ELSE _requestRender(_updatePhysicsTransform(
           [S EXCEPT !.objects[name].position = VAdd(@, v)], name))

moveObjectBody(S, name, v) ==
    IF ~Has(S.objects, name) THEN S
    ELSE LET local == RotY(S.objects[name].yaw, <<v[1], v[2], -v[3]>>)
         IN _requestRender(_updatePhysicsTransform(
              [S EXCEPT !.objects[name].position = VAdd(@, local)], name))

\* setRot with X = Z = 0 and Y = 90 * k degrees
setRotBody(S, name, k) ==
    IF ~Has(S.objects, name) THEN S
    ELSE _requestRender(_updatePhysicsTransform(
           [S EXCEPT !.objects[name].yaw = k % 4], name))

\* Euler 'XYZ' read back from a yaw of q quarter turns, Y increased by k
\* quarter turns, converted back: a half turn reads back as (pi, 0, pi), so
\* the increment is applied between two half turns about X and Z
EulerYawAdd(q, k) ==
    IF q % 4 = 2 THEN (6 - (k % 4)) % 4 ELSE (q + k) % 4

changeRotationBody(S, name, k) ==
    IF ~Has(S.objects, name) THEN S
    ELSE _requestRender(_updatePhysicsTransform(
           [S EXCEPT !.objects[name].yaw = EulerYawAdd(@, k)], name))

\* setRotYawPitch with PITCH = 0 and YAW = 90 * k degrees: Euler(0, -yaw, 0, 'YXZ')
setRotYawPitchBody(S, name, k) ==
    IF ~Has(S.objects, name) THEN S
    ELSE _requestRender(_updatePhysicsTransform(
           [S EXCEPT !.objects[name].yaw = (4 - (k % 4)) % 4], name))

\* the offsets for which Object3D.lookAt yields a yaw in quarter turns
LookRepresentable(d) == d[2] = 0 /\ (d[1] = 0 \/ d[3] = 0)

\* world yaw that turns the +Z axis along d (Matrix4.lookAt; a zero offset
\* leaves +Z where it is)
YawOfPlusZ(d) ==
    IF d[1] = 0 /\ d[3] >= 0 THEN 0
    ELSE IF d[1] = 0 THEN 2
    ELSE IF d[1] > 0 THEN 1
    ELSE 3

Neg(v) == <<-v[1], -v[2], -v[3]>>

lookAtObjectBody(S, name, target) ==
    IF ~Has(S.objects, name) \/ ~Has(S.objects, target) THEN S
    ELSE IF Cyclic(S.objects, name, Cardinality(Names)) THEN S
    ELSE
      LET obj == S.objects[name]
          d == VAdd(S.objects[target].position, Neg(WorldXf(S.objects, name).position))
          \* cameras and lights turn -Z to the target, meshes +Z
          world == IF isCamera(obj) \/ isLight(obj) THEN YawOfPlusZ(Neg(d)) ELSE YawOfPlusZ(d)
          parentYaw == ParentWorldXf(S.objects, name).yaw
          looked == (world + 4 - parentYaw) % 4
          \* obj.rotateY(Math.PI)
          turned == (looked + 2) % 4
          \* Object3D.lookAt: updateWorldMatrix(true, false)
          updated == UpdateMatrixWorld(S.objects,
                        {name} \cup Ancestors(S.objects, name, Cardinality(Names)))
      IN _requestRender(_updatePhysicsTransform(
           [S EXCEPT !.objects = [updated EXCEPT ![name].yaw = turned]], name))

setScaleBody(S, name, v) ==
    IF ~Has(S.objects, name) THEN S
    ELSE _requestRender([S EXCEPT !.objects[name].scale = v])

(***************************************************************************)
(* Appearance: colors travel as '#rrggbb' strings (sequences of hex digits)*)
(***************************************************************************)
RECURSIVE toString16(_)
toString16(n) == IF n < 16 THEN <<n>> ELSE Append(toString16(n \div 16), n % 16)

RECURSIVE padStart(_, _, _)
padStart(s, len, fill) == IF Len(s) >= len THEN s ELSE padStart(<<fill>> \o s, len, fill)

RECURSIVE parseHex(_)
parseHex(s) == IF s = <<>> THEN 0 ELSE 16 * parseHex(SubSeq(s, 1, Len(s) - 1)) + s[Len(s)]

\* THREE.Color.set('#...'): six digits, or three digits each doubled;
\* any other length leaves the color as it is
ColorSet(current, hex) ==
    IF Len(hex) = 6 THEN parseHex(hex)
    ELSE IF Len(hex) = 3
         THEN parseHex(<<hex[1], hex[1], hex[2], hex[2], hex[3], hex[3]>>)
    ELSE current

setColorBody(S, name, hex) ==
    IF ~Has(S.objects, name) THEN S
    ELSE LET obj == S.objects[name]
         IN IF isMesh(obj)
            THEN _requestRender([CloneMaterial(S, name) EXCEPT
                   !.objects[name].color = ColorSet(obj.color, hex)])
            ELSE IF isLight(obj)
            THEN _requestRender([S EXCEPT !.objects[name].color = ColorSet(@, hex)])
            ELSE _requestRender(S)

\* setTexture up to the start of the load; the texture arrives later
setTextureBody(S, name) ==
    IF ~Has(S.objects, name) THEN S
    ELSE IF ~isMesh(S.objects[name]) THEN S
    ELSE [CloneMaterial(S, name) EXCEPT
            !.textureLoads = Append(@, [name |-> name, held |-> "registered"])]

\* variant: the callback looks the name up again when the texture arrives
TextureCallback_ByName(S, load) ==
    IF Has(S.objects, load.name) /\ isMesh(S.objects[load.name])
    THEN _requestRender([S EXCEPT !.objects[load.name].map = TRUE])
    ELSE _requestRender(S)

\* the callback of TextureLoader.load: obj is the object setTexture found,
\* and obj.material is the clone setTexture gave it
TextureCallback(S, load) ==
    IF load.held = "registered"
    THEN _requestRender([S EXCEPT !.objects[load.name].map = TRUE])
    ELSE _requestRender(S)

Without(seq, i) == SubSeq(seq, 1, i - 1) \o SubSeq(seq, i + 1, Len(seq))

(***************************************************************************)
(* Physics                                                                 *)
(***************************************************************************)
TicksPerStep == 2
MaxSubSteps == 10
Gravity == <<0, -1, 0>>

\* CANNON.Body ids are never reused; the model picks the least id that no
\* map still mentions
FreeIds(S) == (1..MaxBodyId) \ (DOMAIN S.bodies \cup DOMAIN S.bodyToName)
Min(set) == CHOOSE x \in set : \A y \in set : x <= y

DefaultPhysData ==
    [enabled |-> TRUE, mass |-> 1, fixed |-> FALSE, friction |-> 3, bounciness |-> 3]

\* a body for the object, replacing the one it has
NewBody(S, name) ==
      LET obj == S.objects[name]
          old == Has(S.physicsBodies, name)
          S1 == IF old
                THEN [S EXCEPT !.bodies = Del(@, S.physicsBodies[name]),
                               !.bodyToName = Del(@, S.physicsBodies[name]),
                               !.contacts = {c \in @ : S.physicsBodies[name] \notin c}]
                ELSE S
          free == FreeIds(S1)
          id == IF free = {} THEN 0 ELSE Min(free)
          body == [name |-> name, position |-> obj.position, quaternion |-> obj.yaw,
                   velocity |-> VZero, angularVelocity |-> 0,
                   mass |-> 1, static |-> FALSE]
      IN [S1 EXCEPT
            !.bodies = Put(@, id, body),
            !.physicsBodies = Put(@, name, id),
            !.bodyToName = Put(@, id, name),
            !.objectPhysData = Put(@, name, DefaultPhysData),
            !.overflow = @ \/ free = {}]

\* variant: a body for an object of any kind
enablePhysicsBody_AnyKind(S, name) ==
    IF ~Has(S.objects, name) THEN S ELSE NewBody(S, name)

enablePhysicsBody(S, name) ==
    IF ~Has(S.objects, name) THEN S
    ELSE IF ~isMesh(S.objects[name]) THEN S
    ELSE NewBody(S, name)

\* variant: the solver applies no gravity
internalStep_NoGravity(bs) ==
    [id \in DOMAIN bs |->
       IF bs[id].static THEN bs[id]
       ELSE [bs[id] EXCEPT
               !.position = VAdd(@, bs[id].velocity),
               !.quaternion = (@ + bs[id].angularVelocity) % 4]]

\* one fixed tick of the solver: gravity, then motion, for dynamic bodies
internalStep(bs) ==
    [id \in DOMAIN bs |->
       IF bs[id].static THEN bs[id]
       ELSE LET v == VAdd(bs[id].velocity, Gravity)
            IN [bs[id] EXCEPT
                  !.velocity = v,
                  !.position = VAdd(@, v),
                  !.quaternion = (@ + bs[id].angularVelocity) % 4]]

RECURSIVE internalSteps(_, _)
internalSteps(bs, n) == IF n = 0 THEN bs ELSE internalSteps(internalStep(bs), n - 1)

\* variant: every tick that is due is run
SubSteps_NoCap(phase, dt) ==
    IF dt = 0 THEN 1 ELSE (phase + dt) \div TicksPerStep

\* number of fixed ticks world.step(1/60, dt, 10) runs when the world clock
\* is at phase and dt has elapsed; dt = 0 selects the single fixed step
SubSteps(phase, dt) ==
    IF dt = 0 THEN 1
    ELSE LET due == (phase + dt) \div TicksPerStep
         IN IF due > MaxSubSteps THEN MaxSubSteps ELSE due

\* two bodies of the size enablePhysics gives an unscaled object overlap
Overlap(b1, b2) ==
    \A i \in 1..3 : b1.position[i] = b2.position[i]

\* the contacts a fixed tick finds before it moves the bodies; a pair of
\* static bodies is not tested
Contacts(bs) ==
    {c \in SUBSET DOMAIN bs :
       /\ Cardinality(c) = 2
       /\ \A i \in c : \A j \in c \ {i} :
             Overlap(bs[i], bs[j]) /\ ~(bs[i].static /\ bs[j].static)}

\* world.contacts after n fixed ticks: those of the last tick
ContactsAfter(S, n) ==
    IF n = 0 THEN S.contacts ELSE Contacts(internalSteps(S.bodies, n - 1))

worldStep(S, dt) ==
    [S EXCEPT !.bodies = internalSteps(@, SubSteps(S.worldTime, dt)),
              !.contacts = ContactsAfter(S, SubSteps(S.worldTime, dt)),
              !.worldTime = (@ + dt) % TicksPerStep]

\* the names getTouching collects for the body registered under name
getTouchingValue(S, name) ==
    IF ~Has(S.physicsBodies, name) THEN {}
    ELSE {S.bodyToName[other] :
            other \in {o \in UNION {c \ {S.physicsBodies[name]} :
                                       c \in {d \in S.contacts : S.physicsBodies[name] \in d}} :
                         Has(S.bodyToName, o)}}

\* variant: the objects are left where they were
SyncObjects_Skip(S) == S

\* body -> object copy at the end of stepPhysics
SyncObjects(S) ==
    [S EXCEPT !.objects = [n \in DOMAIN S.objects |->
        IF Has(S.physicsBodies, n)
        THEN [S.objects[n] EXCEPT
                !.position = S.bodies[S.physicsBodies[n]].position,
                !.yaw = S.bodies[S.physicsBodies[n]].quaternion]
        ELSE S.objects[n]]]

stepPhysicsBody(S, t) ==
    IF S.lastPhysTime = 0 THEN [S EXCEPT !.lastPhysTime = t]
    ELSE LET dt == t - S.lastPhysTime
         IN _requestRender(SyncObjects(worldStep([S EXCEPT !.lastPhysTime = t], dt)))

pushObjectBody(S, name, v) ==
    IF ~Has(S.physicsBodies, name) THEN S
    ELSE LET id == S.physicsBodies[name]
         IN IF S.bodies[id].static THEN S
            ELSE [S EXCEPT !.bodies[id].velocity = VAdd(@, v)]

setPhysPropBody(S, name, prop, val) ==
    IF ~Has(S.physicsBodies, name) THEN S
    ELSE
      LET id == S.physicsBodies[name]
          pData == S.objectPhysData[name]
      IN IF prop = "fixed"
         THEN [S EXCEPT
                 !.objectPhysData[name].fixed = (val = 1),
                 !.bodies[id] = [@ EXCEPT
                     !.mass = IF val = 1 THEN 0 ELSE pData.mass,
                     !.static = (val = 1),
                     !.velocity = VZero]]
         ELSE [S EXCEPT
                 !.objectPhysData[name] = [@ EXCEPT
                     !.friction = IF prop = "friction" THEN val ELSE @,
                     !.bounciness = IF prop = "bounciness" THEN val ELSE @]]

(***************************************************************************)
(* Grouping, camera                                                        *)
(***************************************************************************)
groupObjectsBody(S, child, parent) ==
    IF Has(S.objects, child) /\ Has(S.objects, parent) /\ child # parent
    THEN LET S1 == IF Has(S.physicsBodies, child)
                   THEN [S EXCEPT !.bodies = Del(@, S.physicsBodies[child]),
                                  !.physicsBodies = Del(@, child)]
                   ELSE S
         IN _requestRender([S1 EXCEPT !.objects[child] = [@ EXCEPT
                              !.parent = parent,
                              !.parentXf = NoXf,
                              !.position = VZero]])
    ELSE S

ungroupObjectBody(S, name) ==
    IF Has(S.objects, name) /\ S.objects[name].parent # "scene"
    THEN IF Cyclic(S.objects, name, Cardinality(Names)) THEN S
         ELSE LET w == WorldXf(S.objects, name)
                  \* Object3D.attach updates the matrixWorld of the node, of
                  \* the nodes above it and of the nodes below it
                  updated == UpdateMatrixWorld(S.objects,
                                {name} \cup Ancestors(S.objects, name, Cardinality(Names))
                                       \cup Descendants(S.objects, name))
              IN _requestRender([S EXCEPT !.objects = [updated EXCEPT ![name] = [@ EXCEPT
                                   !.position = w.position,
                                   !.yaw = w.yaw,
                                   !.scale = w.scale,
                                   !.parent = "scene",
                                   !.parentXf = NoXf]]])
    ELSE S

\* config.shadows = (val >= 1) ? 1 : 0;  config.renderDistance = Math.max(1, val)
setQualitySettingBody(S, setting, val) ==
    _requestRender(
      IF setting = "shadows"
      THEN [S EXCEPT !.config.shadows = IF val >= 1 THEN 1 ELSE 0]
      ELSE IF setting = "renderDistance"
      THEN [S EXCEPT !.config.renderDistance = IF val > 1 THEN val ELSE 1]
      ELSE S)

(***************************************************************************)
(* getLookingAt: a ray from obj.position along the object's -Z axis,       *)
(* tested against the matrixWorld of every other mesh.  Lengths along the  *)
(* ray are in tenths of a unit.                                            *)
(***************************************************************************)
Dot(a, b) == a[1] * b[1] + a[2] * b[2] + a[3] * b[3]
Near == 1
\* BoxGeometry(1, 1, 1) reaches 0.5 from its centre, SphereGeometry(0.6, ..) 0.6
HalfSize(type) == IF type = "Sphere" THEN 6 ELSE 5

\* where the ray from origin along the unit axis dir enters the surface of a
\* shape centred at centre: -1 when it misses.  The default material is
\* front-sided, so a ray that starts inside the shape meets no face.
Entry(origin, dir, centre, type) ==
    LET rel == VAdd(centre, Neg(origin))
        along == Dot(rel, dir)
        perp == VAdd(rel, Neg(<<along * dir[1], along * dir[2], along * dir[3]>>))
    IN IF perp = VZero /\ 10 * along - HalfSize(type) >= 0
       THEN 10 * along - HalfSize(type) ELSE -1

\* the meshes the ray is tested against
Targets(S, name) == {k \in DOMAIN S.objects \ {name} : isMesh(S.objects[k])}

\* the hits Raycaster.intersectObjects keeps: between near and far
Intersects(S, name) ==
    LET obj == S.objects[name]
        dir == RotY(obj.yaw, <<0, 0, -1>>)
    IN {k \in Targets(S, name) :
          LET e == Entry(obj.position, dir, S.objects[k].matrixWorld.position,
                         S.objects[k].type)
          IN e >= Near /\ e <= 10 * S.config.renderDistance}

\* intersects[0].object.name, or "": hits are sorted by distance, and hits at
\* one distance keep the order in which the objects were registered
getLookingAtValues(S, name) ==
    LET obj == S.objects[name]
        dir == RotY(obj.yaw, <<0, 0, -1>>)
        dist(k) == Entry(obj.position, dir, S.objects[k].matrixWorld.position,
                         S.objects[k].type)
        hits == Intersects(S, name)
    IN IF hits = {} THEN {""}
       ELSE {k \in hits : \A j \in hits : dist(k) <= dist(j)}

\* the shapes and sizes for which Entry is exact
LookModelled(S) ==
    \A k \in DOMAIN S.objects :
       isMesh(S.objects[k]) =>
          /\ S.objects[k].type \in {"Cube", "Sphere"}
          /\ S.objects[k].matrixWorld.scale = VOne

setCameraBody(S, name) ==
    IF Has(S.objects, name) /\ isCamera(S.objects[name])
    THEN _requestRender([S EXCEPT !.activeCamera = name])
    ELSE S

(***************************************************************************)
(* Scene JSON                                                              *)
(* A parsed document is "invalid" (JSON.parse throws), "nonarray" (a value *)
(* that cannot be iterated, such as {}), or an array of items.  An item is *)
(* well formed ("ok"), lacks its pos member ("nopos"), or is null.         *)
(***************************************************************************)
NoPhysics ==
    [present |-> FALSE, enabled |-> FALSE, mass |-> 0, fixed |-> FALSE,
     friction |-> 0, bounciness |-> 0]

\* Angles as numbers, in thousandths: a quarter turn is Math.PI / 2 radians
\* and 90 degrees
QuarterTurnRadians == 1571
QuarterTurnDegrees == 90000

\* obj.rotation.y, the angle THREE keeps in radians
Radians(q) == q * QuarterTurnRadians

\* obj.rotation.set(x, y, z) takes radians
FromRadians(r) == (r \div QuarterTurnRadians) % 4

\* the Euler angle times r2d = 180 / Math.PI
Degrees(q) == q * QuarterTurnDegrees

\* the number getRotation reports for the turn about Y
getRotationValue(S, name) == Degrees(S.objects[name].yaw)

EntryOf(S, key) ==
    LET obj == S.objects[key]
    IN [wf    |-> "ok",
        name  |-> key,
        type  |-> obj.type,
        pos   |-> obj.position,
        rot   |-> Radians(obj.yaw),
        scale |-> obj.scale,
        color |-> IF isMesh(obj) \/ isLight(obj) THEN obj.color ELSE WHITE,
        physics |-> IF Has(S.objectPhysData, key)
                    THEN [present |-> TRUE] @@ S.objectPhysData[key]
                    ELSE NoPhysics]

RECURSIVE SeqOfKeys(_)
SeqOfKeys(keys) ==
    IF keys = {} THEN <<>>
    ELSE LET k == CHOOSE x \in keys : TRUE
         IN <<k>> \o SeqOfKeys(keys \ {k})

getSceneJSONValue(S) ==
    LET keys == SeqOfKeys(DOMAIN S.objects)
    IN [kind |-> "array", items |-> [i \in 1..Len(keys) |-> EntryOf(S, keys[i])]]

\* this.setPhysProp({NAME, PROP: 'fixed', VAL: 1}) for a fixed item
LoadFixed(E, item) ==
    IF item.physics.fixed THEN setPhysPropBody(E, item.name, "fixed", 1) ELSE E

LoadPhysics(S3, item) ==
    IF item.physics.present /\ item.physics.enabled
    THEN LoadFixed(enablePhysicsBody(S3, item.name), item)
    ELSE S3

LoadColor(S2, item) ==
    IF item.color # 0
    THEN setColorBody(S2, item.name, padStart(toString16(item.color), 6, 0))
    ELSE S2

\* variant: the scale member of an item is ignored
LoadCreated_NoScale(S1, item) ==
    IF item.wf = "nopos" THEN [S |-> S1, thrown |-> TRUE]
    ELSE [S |-> LoadPhysics(LoadColor([S1 EXCEPT !.objects[item.name] = [@ EXCEPT
                                          !.position = item.pos,
                                          !.yaw = FromRadians(item.rot)]], item), item),
          thrown |-> FALSE]

\* the members of an item applied to the object just created for it
LoadCreated(S1, item) ==
    IF item.wf = "nopos" THEN [S |-> S1, thrown |-> TRUE]
    ELSE [S |-> LoadPhysics(LoadColor([S1 EXCEPT !.objects[item.name] = [@ EXCEPT
                                          !.position = item.pos,
                                          !.yaw = FromRadians(item.rot),
                                          !.scale = item.scale]], item), item),
          thrown |-> FALSE]

LoadItem(R, item) ==
    IF R.thrown THEN R
    ELSE IF item.wf = "null" THEN [R EXCEPT !.thrown = TRUE]
    ELSE LoadCreated(createObjectBody(R.S, item.name, item.type), item)

RECURSIVE LoadItems(_, _)
LoadItems(R, items) ==
    IF items = <<>> THEN R ELSE LoadItems(LoadItem(R, Head(items)), Tail(items))

LoadFinish(R) ==
    IF R.thrown THEN R ELSE [S |-> _requestRender(R.S), thrown |-> FALSE]

LoadAfterClear(cleared, json) ==
    IF json.kind = "nonarray" THEN [S |-> cleared, thrown |-> TRUE]
    ELSE LoadFinish(LoadItems([S |-> cleared, thrown |-> FALSE], json.items))

\* returns the state after the call and whether the load failed
loadSceneJSONResult(S, json) ==
    IF json.kind = "invalid" THEN [S |-> S, thrown |-> TRUE]
    ELSE LoadAfterClear(deleteAllObjectsBody(S), json)

loadSceneJSONBody(S, json) == loadSceneJSONResult(S, json).S

(***************************************************************************)
(* Calls.  A call is a record; every public method starts with             *)
(*   if (!this.loaded) return this._check().then(() => this.method(args))  *)
(***************************************************************************)
NoJSON == [kind |-> "invalid", items |-> <<>>]

Call(op, name, type, v, k, json) ==
    [op |-> op, NAME |-> name, TYPE |-> type, V |-> v, K |-> k, JSON |-> json]

\* names that every plain JavaScript object inherits from Object.prototype:
\* this.objects[name] and this.physicsBodies[name] are truthy for them even
\* though nothing was registered under the name
ProtoNames == {"constructor"}

CallNames == Names \cup ProtoNames

\* a third object, for scenes with two targets in front of a viewer
MoreNames == {"C"}

\* the lookup of c.NAME finds an inherited member instead of an object
OnProto(c, S) == c.NAME \in ProtoNames /\ ~Has(S.objects, c.NAME)

\* operations that use a member of the looked-up value that an inherited
\* member does not have (obj.position.set, obj.quaternion, body.wakeUp ...)
ProtoThrows ==
    {"setPos", "changePosition", "moveObject", "setRot", "changeRotation",
     "setRotYawPitch", "lookAtObject", "setScale", "pushObject", "setPhysProp",
     "groupObjects", "ungroupObject", "getPosition", "getRotation", "getScale",
     "getYawPitch", "getDistanceBetween", "getLookingAt"}

\* operations that end with _requestRender whatever the lookup found
ProtoRenders == {"deleteObject", "setColor"}

\* the call on an inherited member: the state is left as it is
ProtoCall(c, S) == IF c.op \in ProtoRenders THEN _requestRender(S) ELSE S

\* the method body that runs once the engines are loaded
Exec(c, S, t) ==
    IF OnProto(c, S) THEN ProtoCall(c, S) ELSE
    CASE c.op = "createObject"     -> createObjectBody(S, c.NAME, c.TYPE)
      [] c.op = "deleteObject"     -> deleteObjectBody(S, c.NAME)
      [] c.op = "deleteAllObjects" -> deleteAllObjectsBody(S)
      [] c.op = "setPos"           -> setPosBody(S, c.NAME, c.V)
      [] c.op = "changePosition"   -> changePositionBody(S, c.NAME, c.V)
      [] c.op = "moveObject"       -> moveObjectBody(S, c.NAME, c.V)
      [] c.op = "setRot"           -> setRotBody(S, c.NAME, c.K)
      [] c.op = "changeRotation"   -> changeRotationBody(S, c.NAME, c.K)
      [] c.op = "setRotYawPitch"   -> setRotYawPitchBody(S, c.NAME, c.K)
      [] c.op = "lookAtObject"     -> lookAtObjectBody(S, c.NAME, c.TYPE)
      [] c.op = "setScale"         -> setScaleBody(S, c.NAME, c.V)
      [] c.op = "setColor"         -> setColorBody(S, c.NAME, c.V)
      [] c.op = "setQualitySetting" -> setQualitySettingBody(S, c.TYPE, c.K)
      [] c.op = "setTexture"       -> setTextureBody(S, c.NAME)
      [] c.op = "enablePhysics"    -> enablePhysicsBody(S, c.NAME)
      [] c.op = "stepPhysics"      -> stepPhysicsBody(S, t)
      [] c.op = "pushObject"       -> pushObjectBody(S, c.NAME, c.V)
      [] c.op = "setPhysProp"      -> setPhysPropBody(S, c.NAME, c.TYPE, c.K)
      [] c.op = "groupObjects"     -> groupObjectsBody(S, c.NAME, c.TYPE)
      [] c.op = "ungroupObject"    -> ungroupObjectBody(S, c.NAME)
      [] c.op = "setCamera"        -> setCameraBody(S, c.NAME)
      [] c.op = "loadSceneJSON"    -> loadSceneJSONBody(S, c.JSON)
      [] OTHER                     -> S

\* the call reads a member of something that is not an object of the scene
ProtoThrew(c, S) ==
    /\ OnProto(c, S) /\ c.op \in ProtoThrows
    /\ (c.op \in {"lookAtObject", "getDistanceBetween"} => Has(S.objects, c.TYPE))

Threw(c, S) ==
    \/ c.op = "loadSceneJSON" /\ loadSceneJSONResult(S, c.JSON).thrown
    \/ ProtoThrew(c, S)

Reporters ==
    {"getPosition", "getRotation", "getScale", "getYawPitch", "getDistanceBetween",
     "getSceneJSON", "getLookingAt"}

\* what a reporter returns when its object is missing
EmptyReply(op) ==
    IF op = "getDistanceBetween" THEN "0"
    ELSE IF op = "getLookingAt" THEN ""
    ELSE "[]"

\* kind of value the call returns to the script
Reply(c, S) ==
    IF c.op \notin Reporters THEN "none"
    ELSE IF ProtoThrew(c, S) THEN "TypeError"
    ELSE IF c.op = "getSceneJSON" THEN "value"
    ELSE IF ~Has(S.objects, c.NAME) THEN EmptyReply(c.op)
    ELSE IF c.op = "getDistanceBetween" /\ ~Has(S.objects, c.TYPE) THEN EmptyReply(c.op)
    ELSE "value"

\* the values the call can return: getLookingAt returns a name
Replies(c, S) ==
    IF c.op = "getLookingAt" /\ Reply(c, S) = "value"
    THEN getLookingAtValues(S, c.NAME)
    ELSE {Reply(c, S)}

\* the model keeps coordinates and speeds within MaxCoord
Bounded(S) ==
    /\ ~S.overflow
    /\ \A n \in DOMAIN S.objects : InRange(S.objects[n].position)
    /\ \A id \in DOMAIN S.bodies :
         InRange(S.bodies[id].position) /\ InRange(S.bodies[id].velocity)

Commit(S) ==
    /\ objects' = S.objects
    /\ physicsBodies' = S.physicsBodies
    /\ objectPhysData' = S.objectPhysData
    /\ bodies' = S.bodies
    /\ bodyToName' = S.bodyToName
    /\ contacts' = S.contacts
    /\ worldTime' = S.worldTime
    /\ activeCamera' = S.activeCamera
    /\ lastPhysTime' = S.lastPhysTime
    /\ renderPending' = S.renderPending
    /\ rafCallbacks' = S.rafCallbacks
    /\ resources' = S.resources
    /\ textureLoads' = S.textureLoads
    /\ config' = S.config

Instance == <<objects, physicsBodies, objectPhysData, bodies, bodyToName, contacts,
              worldTime, activeCamera, lastPhysTime, renderPending, rafCallbacks,
              resources, textureLoads, config>>

\* what a frame shows: the objects and the camera it is drawn from
Visible(S) == <<S.objects, S.activeCamera>>

\* history record of a call: how it was handled and what it met
\* what a deleteAllObjects call found: the objects, the bodies of the solver
\* world, the active camera and the physics clock
NothingFound == [objects |-> {}, bodies |-> {}, camera |-> "null", clock |-> 0]

Found(c, mode) ==
    IF mode = "ran" /\ c.op = "deleteAllObjects"
    THEN [objects |-> DOMAIN objects, bodies |-> DOMAIN bodies,
          camera |-> activeCamera, clock |-> lastPhysTime]
    ELSE NothingFound

Note(c, mode, src) ==
    [op |-> c.op, NAME |-> c.NAME, TYPE |-> IF c.op = "loadSceneJSON" THEN src ELSE c.TYPE,
     mode |-> mode,
     thrown |-> (mode = "ran" /\ Threw(c, This)),
     reply |-> IF mode = "ran" THEN Reply(c, This) ELSE "none",
     \* for a stepPhysics call past the warm-up: the time handed to world.step
     \* and the number of fixed ticks world.step runs for it
     dt |-> IF mode = "ran" /\ c.op = "stepPhysics" /\ lastPhysTime # 0
            THEN now - lastPhysTime ELSE 0,
     subSteps |-> IF mode = "ran" /\ c.op = "stepPhysics" /\ lastPhysTime # 0
                  THEN SubSteps(worldTime, now - lastPhysTime) ELSE 0,
     found |-> Found(c, mode),
     \* the names a getTouching call returns
     touching |-> IF mode = "ran" /\ c.op = "getTouching"
                  THEN getTouchingValue(This, c.NAME) ELSE {},
     \* the material a setColor or setTexture call found on its object
     hadMaterial |-> IF c.op \in {"setColor", "setTexture"} /\ Has(objects, c.NAME)
                     THEN objects[c.NAME].material ELSE "none",
     existed |-> (c.NAME \in DOMAIN objects),
     hadBody |-> (c.NAME \in DOMAIN physicsBodies),
     moving |-> (c.NAME \in DOMAIN physicsBodies
                 /\ bodies[physicsBodies[c.NAME]].velocity # VZero)]

Clears(c) ==
    \/ c.op = "deleteAllObjects"
    \/ c.op = "loadSceneJSON" /\ c.JSON.kind # "invalid"

StepsAfter(c) ==
    IF Clears(c) THEN [n |-> 0, cleared |-> TRUE]
    ELSE IF c.op = "stepPhysics"
    THEN [stepsSinceClear EXCEPT !.n = IF @ < 2 THEN @ + 1 ELSE 2]
    ELSE stepsSinceClear

Run(c, src) ==
    \E call \in {c}, T \in {This} :
       \E S \in {Exec(call, T, now)}, note \in {Note(call, "ran", src)} :
          /\ Bounded(S)
          /\ Commit(S)
          /\ \E r \in Replies(call, T) : last' = [note EXCEPT !.reply = r]
          /\ stepsSinceClear' = StepsAfter(call)
          /\ unrendered' = IF Visible(S) # Visible(T) /\ unrendered < 2
                           THEN unrendered + 1 ELSE unrendered

\* variant: the call runs at once, whether or not the engines are loaded
Invoke_NoCheck(c, src) ==
    /\ deferred = <<>>
    /\ Run(c, src)
    /\ UNCHANGED <<loaded, loadPromise, deferred, now, executed>>

\* a call made by a script
Invoke(c, src) ==
    IF loaded
    THEN /\ deferred = <<>>
         /\ Run(c, src)
         /\ UNCHANGED <<loaded, loadPromise, deferred, now, executed>>
    ELSE IF loadPromise = "pending"
    THEN /\ Len(deferred) < MaxDeferred
         /\ deferred' = Append(deferred, [id |-> Len(executed) + Len(deferred) + 1, call |-> c])
         /\ last' = Note(c, "queued", src)
         /\ UNCHANGED <<Instance, loaded, loadPromise, now, stepsSinceClear, executed, unrendered>>
    ELSE /\ last' = Note(c, "dropped", src)
         /\ UNCHANGED <<Instance, loaded, loadPromise, deferred, now, stepsSinceClear, executed, unrendered>>

NoV == <<>>

createObject(name, type) ==
    /\ name \in Names \cup MoreNames /\ type \in Types
    /\ Invoke(Call("createObject", name, type, NoV, 0, NoJSON), "")
deleteObject(name) ==
    /\ name \in CallNames
    /\ Invoke(Call("deleteObject", name, "", NoV, 0, NoJSON), "")
deleteAllObjects ==
    /\ TRUE
    /\ Invoke(Call("deleteAllObjects", "", "", NoV, 0, NoJSON), "")
setPos(name, v) ==
    /\ name \in CallNames \cup MoreNames
    /\ Invoke(Call("setPos", name, "", v, 0, NoJSON), "")
changePosition(name, v) ==
    /\ name \in CallNames
    /\ Invoke(Call("changePosition", name, "", v, 0, NoJSON), "")
moveObject(name, v) ==
    /\ name \in CallNames
    /\ Invoke(Call("moveObject", name, "", v, 0, NoJSON), "")
setRot(name, k) ==
    /\ name \in CallNames
    /\ Invoke(Call("setRot", name, "", NoV, k, NoJSON), "")
changeRotation(name, k) ==
    /\ name \in CallNames
    /\ Invoke(Call("changeRotation", name, "", NoV, k, NoJSON), "")
setRotYawPitch(name, k) ==
    /\ name \in CallNames
    /\ Invoke(Call("setRotYawPitch", name, "", NoV, k, NoJSON), "")
\* enabled for the offsets whose result is a yaw in quarter turns
lookAtObject(name, target) ==
    /\ name \in CallNames /\ target \in Names
    /\ (name \in DOMAIN objects /\ target \in DOMAIN objects
        /\ ~Cyclic(objects, name, Cardinality(Names)))
         => LookRepresentable(VAdd(objects[target].position,
                                   Neg(WorldXf(objects, name).position)))
    /\ Invoke(Call("lookAtObject", name, target, NoV, 0, NoJSON), "")
setScale(name, v) ==
    /\ name \in CallNames
    /\ Invoke(Call("setScale", name, "", v, 0, NoJSON), "")
\* COLOR arrives as '#rrggbb'
setColor(name, color) ==
    /\ name \in CallNames
    /\ Invoke(Call("setColor", name, "", padStart(toString16(color), 6, 0), 0, NoJSON), "")
setTexture(name) ==
    /\ name \in CallNames /\ Len(textureLoads) < MaxLoads
    /\ Invoke(Call("setTexture", name, "", NoV, 0, NoJSON), "")
enablePhysics(name) ==
    /\ name \in CallNames
    /\ Invoke(Call("enablePhysics", name, "", NoV, 0, NoJSON), "")
stepPhysics ==
    /\ TRUE
    /\ Invoke(Call("stepPhysics", "", "", NoV, 0, NoJSON), "")
pushObject(name, v) ==
    /\ name \in CallNames
    /\ Invoke(Call("pushObject", name, "", v, 0, NoJSON), "")
setPhysProp(name, prop, val) ==
    /\ name \in CallNames
    /\ Invoke(Call("setPhysProp", name, prop, NoV, val, NoJSON), "")
groupObjects(child, parent) ==
    /\ child \in CallNames /\ parent \in Names
    /\ Invoke(Call("groupObjects", child, parent, NoV, 0, NoJSON), "")
ungroupObject(name) ==
    /\ name \in CallNames
    /\ Invoke(Call("ungroupObject", name, "", NoV, 0, NoJSON), "")
setCamera(name) ==
    /\ name \in CallNames
    /\ Invoke(Call("setCamera", name, "", NoV, 0, NoJSON), "")
setQualitySetting(setting, val) ==
    /\ setting \in {"shadows", "renderDistance"} /\ val \in 0..DefaultRenderDistance
    /\ Invoke(Call("setQualitySetting", "", setting, NoV, val, NoJSON), "")
getLookingAt(name) ==
    /\ name \in CallNames \cup MoreNames /\ LookModelled(This)
    /\ Invoke(Call("getLookingAt", name, "", NoV, 0, NoJSON), "")
getTouching(name) ==
    /\ name \in Names
    /\ Invoke(Call("getTouching", name, "", NoV, 0, NoJSON), "")
getPosition(name) ==
    /\ name \in CallNames
    /\ Invoke(Call("getPosition", name, "", NoV, 0, NoJSON), "")
getRotation(name) ==
    /\ name \in CallNames
    /\ Invoke(Call("getRotation", name, "", NoV, 0, NoJSON), "")
getYawPitch(name) ==
    /\ name \in CallNames
    /\ Invoke(Call("getYawPitch", name, "", NoV, 0, NoJSON), "")
getScale(name) ==
    /\ name \in CallNames
    /\ Invoke(Call("getScale", name, "", NoV, 0, NoJSON), "")
getDistanceBetween(obj1, obj2) ==
    /\ obj1 \in CallNames /\ obj2 \in Names
    /\ Invoke(Call("getDistanceBetween", obj1, obj2, NoV, 0, NoJSON), "")
getSceneJSON ==
    /\ TRUE
    /\ Invoke(Call("getSceneJSON", "", "", NoV, 0, NoJSON), "")
loadSceneJSON(json) ==
    /\ json.kind \in {"invalid", "nonarray", "array"}
    /\ Invoke(Call("loadSceneJSON", "", "", NoV, 0, json), "input")
\* loadSceneJSON(getSceneJSON()) as one script step
LoadDump ==
    /\ loaded
    /\ Invoke(Call("loadSceneJSON", "", "", NoV, 0, getSceneJSONValue(This)), "dump")

(***************************************************************************)
(* Environment: engine scripts, microtasks, animation frames, the clock    *)
(***************************************************************************)
NoCall == [op |-> "", NAME |-> "", TYPE |-> "", mode |-> "", thrown |-> FALSE,
           reply |-> "none", dt |-> 0, subSteps |-> 0, found |-> NothingFound, touching |-> {},
           hadMaterial |-> "none",
           existed |-> FALSE, hadBody |-> FALSE, moving |-> FALSE]

\* history record of a step of the environment
Env(what) == [NoCall EXCEPT !.op = what, !.mode = "env"]

\* scriptCannon.onload: loaded = true, _ensureInit(), resolve()
LoadResolve ==
    /\ loadPromise = "pending"
    /\ loaded' = TRUE
    /\ loadPromise' = "resolved"
    /\ last' = Env("LoadResolve")
    /\ UNCHANGED <<Instance, deferred, now, stepsSinceClear, executed, unrendered>>

\* scriptThree.onerror / scriptCannon.onerror: reject(...)
LoadReject ==
    /\ loadPromise = "pending"
    /\ loadPromise' = "rejected"
    /\ last' = Env("LoadReject")
    /\ UNCHANGED <<Instance, loaded, deferred, now, stepsSinceClear, executed, unrendered>>

\* the continuation  () => this.method(args)  of the oldest deferred call
\* variant: the continuation registered last runs first
RunDeferred_LastFirst ==
    /\ loadPromise = "resolved"
    /\ deferred # <<>>
    /\ Run(deferred[Len(deferred)].call, "")
    /\ deferred' = SubSeq(deferred, 1, Len(deferred) - 1)
    /\ executed' = Append(executed, deferred[Len(deferred)].id)
    /\ UNCHANGED <<loaded, loadPromise, now>>

RunDeferred ==
    /\ loadPromise = "resolved"
    /\ deferred # <<>>
    /\ Run(Head(deferred).call, "")
    /\ deferred' = Tail(deferred)
    /\ executed' = Append(executed, Head(deferred).id)
    /\ UNCHANGED <<loaded, loadPromise, now>>

\* the requestAnimationFrame callback of _requestRender
RenderFrame ==
    /\ rafCallbacks > 0
    /\ deferred = <<>> \/ ~loaded
    /\ rafCallbacks' = rafCallbacks - 1
    /\ renderPending' = FALSE
    /\ unrendered' = 0
    /\ last' = Env("RenderFrame")
    \* renderer.render with a camera, renderer.clear without one
    /\ objects' = IF activeCamera # "null" THEN RenderedObjects(objects) ELSE objects
    /\ UNCHANGED <<physicsBodies, objectPhysData, bodies, bodyToName, contacts,
                   worldTime, activeCamera, lastPhysTime, resources, textureLoads,
                   config, loaded, loadPromise, deferred, now, stepsSinceClear,
                   executed>>

\* the callback of TextureLoader.load: the material gets its map
TextureLoaded ==
    /\ textureLoads # <<>>
    /\ deferred = <<>> \/ ~loaded
    /\ \E i \in DOMAIN textureLoads :
         \E load \in {textureLoads[i]} :
            /\ Commit(TextureCallback([This EXCEPT !.textureLoads = Without(@, i)], load))
            /\ last' = [Env("TextureLoaded") EXCEPT
                          !.NAME = load.name,
                          !.existed = (load.held = "registered")]
    /\ UNCHANGED <<loaded, loadPromise, deferred, now, stepsSinceClear, executed,
                   unrendered>>

\* the script is not run for a while (a hidden tab, a breakpoint)
Pause(d) ==
    /\ now + d <= MaxTime + MaxPause
    /\ now' = now + d
    /\ last' = Env("Pause")
    /\ UNCHANGED <<Instance, loaded, loadPromise, deferred, stepsSinceClear, executed, unrendered>>

Tick(d) ==
    /\ now + d <= MaxTime
    /\ now' = now + d
    /\ last' = Env("Tick")
    /\ UNCHANGED <<Instance, loaded, loadPromise, deferred, stepsSinceClear, executed, unrendered>>

(***************************************************************************)
(* Initial states                                                          *)
(***************************************************************************)
Fresh ==
    /\ objects = Empty
    /\ physicsBodies = Empty
    /\ objectPhysData = Empty
    /\ bodies = Empty
    /\ bodyToName = Empty
    /\ contacts = {}
    /\ worldTime = 0
    /\ activeCamera = "null"
    /\ lastPhysTime = 0
    /\ renderPending = FALSE
    /\ rafCallbacks = 0
    /\ resources = SharedResources
    /\ textureLoads = <<>>
    /\ config = [shadows |-> 1, renderDistance |-> DefaultRenderDistance]
    /\ unrendered = 0
    /\ deferred = <<>>
    /\ now = 1
    /\ last = NoCall
    /\ stepsSinceClear = [n |-> 0, cleared |-> FALSE]
    /\ executed = <<>>

\* constructor with window.THREE and window.CANNON already present
Init == Fresh /\ loaded = TRUE /\ loadPromise = "resolved"

\* constructor that has to fetch the engines
InitPending == Fresh /\ loaded = FALSE /\ loadPromise = "pending"

(***************************************************************************)
(* Documents handed to loadSceneJSON                                       *)
(***************************************************************************)
PhysicsOn(fixed) ==
    [present |-> TRUE, enabled |-> TRUE, mass |-> 1, fixed |-> fixed,
     friction |-> 3, bounciness |-> 3]

Item(wf, name, type, physics) ==
    [wf |-> wf, name |-> name, type |-> type, pos |-> VZero, rot |-> 0,
     scale |-> VOne, color |-> WHITE, physics |-> physics]

Invalid == [kind |-> "invalid", items |-> <<>>]
NonArray == [kind |-> "nonarray", items |-> <<>>]
Array(items) == [kind |-> "array", items |-> items]

OkA == Item("ok", "A", "Cube", PhysicsOn(FALSE))
OkB == Item("ok", "B", "Cube", NoPhysics)
NoPosB == Item("nopos", "B", "Cube", NoPhysics)
Null == Item("null", "", "", NoPhysics)

Docs ==
    {Invalid, NonArray, Array(<<>>), Array(<<OkA>>), Array(<<OkA, OkB>>),
     Array(<<Null>>), Array(<<OkA, NoPosB>>), Array(<<OkA, Null>>)}

(***************************************************************************)
(* SpecPause: stepPhysics after pauses of ten fixed ticks and more         *)
(***************************************************************************)
NextPause ==
    \/ createObject("A", "Cube")
    \/ enablePhysics("A")
    \/ setPhysProp("A", "fixed", 1)
    \/ stepPhysics
    \/ Tick(1)
    \/ \E d \in {TicksPerStep * MaxSubSteps, TicksPerStep * (MaxSubSteps + 1) + 1} : Pause(d)

SpecPause == Init /\ [][NextPause]_vars

(***************************************************************************)
(* SpecLook: a viewer A and two other objects B and C are created, placed  *)
(* on the Z axis; frames are drawn with and without a camera               *)
(***************************************************************************)
LookPlaces == {<<0, 0, -2>>, <<0, 0, -1>>, <<0, 0, 2>>}

NextLook ==
    \/ \E t \in {"Cube", "Camera"} : createObject("A", t)
    \/ \E t \in {"Cube", "Light"} : createObject("B", t)
    \/ createObject("C", "Sphere")
    \/ \E n \in {"B", "C"}, v \in LookPlaces : setPos(n, v)
    \/ setCamera("A")
    \/ \E d \in {1, 2} : setQualitySetting("renderDistance", d)
    \/ getLookingAt("A")
    \/ RenderFrame

SpecLook == Init /\ [][NextLook]_vars

(***************************************************************************)
(* SpecDispose: materials and geometries over create, recolor, texture,    *)
(* delete, delete all and load                                             *)
(***************************************************************************)
NextDispose ==
    \/ \E n \in Names, t \in {"Cube", "Light"} : createObject(n, t)
    \/ \E n \in Names : setColor(n, 255)
    \/ setTexture("A")
    \/ \E n \in Names : deleteObject(n)
    \/ deleteAllObjects
    \/ LoadDump
    \/ \E d \in {Invalid, Array(<<OkA>>)} : loadSceneJSON(d)
    \/ TextureLoaded
    \/ RenderFrame

SpecDispose == Init /\ [][NextDispose]_vars

(***************************************************************************)
(* Spec: object lifecycle (create, delete, physics on, grouping, load)     *)
(***************************************************************************)
LifeTypes == {"Cube", "Light"}

Next ==
    \/ \E n \in Names, t \in LifeTypes : createObject(n, t)
    \/ \E n \in Names : deleteObject(n)
    \/ deleteAllObjects
    \/ \E n \in Names : enablePhysics(n)
    \/ \E p \in Names : groupObjects("A", p)
    \/ ungroupObject("A")
    \/ \E d \in Docs : loadSceneJSON(d)
    \/ LoadDump
    \/ getSceneJSON

Spec == Init /\ [][Next]_vars

(***************************************************************************)
(* SpecClear: a mesh with a body, grouped under a camera that may be the   *)
(* active one, stepped, and the whole scene deleted                        *)
(***************************************************************************)
NextClear ==
    \/ createObject("A", "Cube")
    \/ createObject("B", "Camera")
    \/ \E n \in Names : enablePhysics(n)
    \/ groupObjects("A", "B")
    \/ setCamera("B")
    \/ stepPhysics
    \/ Tick(TicksPerStep)
    \/ deleteAllObjects

SpecClear == Init /\ [][NextClear]_vars

(***************************************************************************)
(* SpecKinds: objects of every kind, physics asked for each of them, by a  *)
(* call or by a scene document                                             *)
(***************************************************************************)
KindTypes == {"Cube", "Light", "Camera"}
LightWithPhysics == Item("ok", "A", "Light", PhysicsOn(TRUE))
CameraWithPhysics == Item("ok", "B", "Camera", PhysicsOn(FALSE))
KindDocs == {Array(<<LightWithPhysics, OkB>>), Array(<<OkA, CameraWithPhysics>>)}

NextKinds ==
    \/ \E n \in Names, t \in KindTypes : createObject(n, t)
    \/ \E n \in Names : enablePhysics(n)
    \/ groupObjects("A", "B")
    \/ \E d \in KindDocs : loadSceneJSON(d)

SpecKinds == Init /\ [][NextKinds]_vars

(***************************************************************************)
(* SpecGroup: two meshes grouped under each other in both directions,      *)
(* ungrouped, moved, given a body, deleted and replaced                    *)
(***************************************************************************)
NextGroup ==
    \/ \E n \in Names : createObject(n, "Cube")
    \/ setPos("B", <<0, 1, 0>>)
    \/ enablePhysics("A")
    \/ \E c \in Names, p \in Names : groupObjects(c, p)
    \/ \E n \in Names : ungroupObject(n)
    \/ \E n \in Names : deleteObject(n)

SpecGroup == Init /\ [][NextGroup]_vars

(***************************************************************************)
(* SpecTouch: two meshes with bodies at the same place, stepped so that    *)
(* the solver finds them in contact; then one of them is grouped, deleted  *)
(* or replaced, and the other asked what it touches                        *)
(***************************************************************************)
NextTouch ==
    \/ \E n \in Names : createObject(n, "Cube")
    \/ \E n \in Names : enablePhysics(n)
    \/ groupObjects("B", "A")
    \/ deleteObject("B")
    \/ stepPhysics
    \/ Tick(TicksPerStep)
    \/ \E n \in Names : getTouching(n)

SpecTouch == Init /\ [][NextTouch]_vars

(***************************************************************************)
(* SpecScene: scenes built by create, transform and scale calls, dumped    *)
(* and loaded back                                                         *)
(***************************************************************************)
SceneTypes == {"Sphere", "Light", "Camera"}

NextScene ==
    \/ \E n \in Names, t \in SceneTypes : createObject(n, t)
    \/ \E n \in Names : setPos(n, <<1, 2, -3>>)
    \/ \E n \in Names : changePosition(n, <<0, 0, 3>>)
    \/ \E n \in Names : setRot(n, 1)
    \/ \E n \in Names : setScale(n, <<2, 1, 3>>)
    \/ LoadDump

SpecScene == Init /\ [][NextScene]_vars

(***************************************************************************)
(* SpecColor: colored meshes and lights, dumped and loaded back            *)
(***************************************************************************)
ColorTypes == {"Cube", "Light", "Camera"}
Colors == {0, 255, 1193046}

NextColor ==
    \/ \E n \in Names, t \in ColorTypes : createObject(n, t)
    \/ \E n \in Names, c \in Colors : setColor(n, c)
    \/ \E n \in Names : deleteObject(n)
    \/ LoadDump

SpecColor == Init /\ [][NextColor]_vars

(***************************************************************************)
(* SpecPhysData: physics metadata, dumped and loaded back                  *)
(***************************************************************************)
NextPhysData ==
    \/ \E n \in Names : createObject(n, "Cube")
    \/ \E n \in Names : enablePhysics(n)
    \/ setPhysProp("A", "fixed", 1)
    \/ setPhysProp("A", "friction", 5)
    \/ setPhysProp("A", "bounciness", 7)
    \/ groupObjects("A", "B")
    \/ LoadDump

SpecPhysData == Init /\ [][NextPhysData]_vars

(***************************************************************************)
(* SpecSync: direct transform edits against a moving body                  *)
(***************************************************************************)
NextSync ==
    \/ \E n \in Names : createObject(n, "Cube")
    \/ enablePhysics("A")
    \/ setPos("A", <<0, 1, 0>>)
    \/ changePosition("A", <<0, 0, 1>>)
    \/ moveObject("A", <<0, 0, 1>>)
    \/ setRot("A", 2)
    \/ changeRotation("A", 2)
    \/ setRotYawPitch("A", 2)
    \/ lookAtObject("A", "B")
    \/ pushObject("A", <<0, 1, 0>>)

SpecSync == Init /\ [][NextSync]_vars

(***************************************************************************)
(* SpecStep: the physics clock across steps, clears and loads              *)
(***************************************************************************)
NextStep ==
    \/ createObject("A", "Cube")
    \/ enablePhysics("A")
    \/ pushObject("A", <<0, 1, 0>>)
    \/ setPhysProp("A", "fixed", 1)
    \/ stepPhysics
    \/ deleteAllObjects
    \/ LoadDump
    \/ loadSceneJSON(Invalid)
    \/ \E d \in 1..TicksPerStep : Tick(d)

SpecStep == Init /\ [][NextStep]_vars

(***************************************************************************)
(* SpecInit: calls made while the engines are still being fetched          *)
(***************************************************************************)
NextInit ==
    \/ \E n \in Names : createObject(n, "Cube")
    \/ \E n \in Names : setPos(n, <<1, 2, -3>>)
    \/ \E n \in Names : deleteObject(n)
    \/ LoadResolve
    \/ LoadReject
    \/ RunDeferred

\* the continuations are microtasks: the host runs them once the promise
\* is settled
SpecInit == InitPending /\ [][NextInit]_vars /\ WF_vars(RunDeferred)

(***************************************************************************)
(* Properties                                                              *)
(***************************************************************************)
(* SpecRender: mutations interleaved with the host's animation frames      *)
(***************************************************************************)
NextRender ==
    \/ createObject("A", "Cube")
    \/ createObject("B", "Camera")
    \/ deleteObject("A")
    \/ setPos("A", <<0, 1, 0>>)
    \/ setCamera("B")
    \/ enablePhysics("A")
    \/ stepPhysics
    \/ Tick(TicksPerStep)
    \/ RenderFrame

SpecRender == Init /\ [][NextRender]_vars /\ WF_vars(RenderFrame)


(***************************************************************************)
(* SpecUnknown: every operation that takes a name, on names with and       *)
(* without an object                                                       *)
(***************************************************************************)
\* names under which nothing is registered in this specification
UnknownNames == {"B"} \cup ProtoNames

NextUnknown ==
    \/ createObject("A", "Cube")
    \/ enablePhysics("A")
    \/ \E n \in UnknownNames : deleteObject(n)
    \/ \E n \in UnknownNames : setPos(n, <<0, 1, 0>>)
    \/ \E n \in UnknownNames : changePosition(n, <<0, 1, 0>>)
    \/ \E n \in UnknownNames : moveObject(n, <<0, 1, 0>>)
    \/ \E n \in UnknownNames : setRot(n, 1)
    \/ \E n \in UnknownNames : changeRotation(n, 1)
    \/ \E n \in UnknownNames : setRotYawPitch(n, 1)
    \/ \E n \in UnknownNames : lookAtObject(n, "A")
    \/ \E n \in UnknownNames : setScale(n, <<2, 1, 1>>)
    \/ \E n \in UnknownNames : setColor(n, 255)
    \/ \E n \in UnknownNames : enablePhysics(n)
    \/ \E n \in UnknownNames : pushObject(n, <<0, 1, 0>>)
    \/ \E n \in UnknownNames : setPhysProp(n, "fixed", 1)
    \/ \E n \in UnknownNames : groupObjects(n, "A")
    \/ \E n \in UnknownNames : ungroupObject(n)
    \/ \E n \in UnknownNames : setCamera(n)
    \/ \E n \in UnknownNames : getPosition(n)
    \/ \E n \in UnknownNames : getRotation(n)
    \/ \E n \in UnknownNames : getYawPitch(n)
    \/ \E n \in UnknownNames : getScale(n)
    \/ \E n \in UnknownNames : getDistanceBetween(n, "A")

SpecUnknown == Init /\ [][NextUnknown]_vars

(***************************************************************************)
Ran(op) == last.op = op /\ last.mode = "ran"

\* C1: after createObject(name, k2), whatever was registered under name
\* before (with or without a physics body), the registry holds one object
\* under name, of kind k2, and no physics body is registered for name or
\* present in the world under that name.
C1_CreateReplaces ==
    Ran("createObject") =>
        /\ last.NAME \in DOMAIN objects
        /\ Cardinality({n \in DOMAIN objects : n = last.NAME}) = 1
        /\ objects[last.NAME].type = last.TYPE
        /\ last.NAME \notin DOMAIN physicsBodies
        /\ \A id \in DOMAIN bodies : bodies[id].name # last.NAME

\* a Cube with a physics body has just been replaced by a Light
C1_Witness ==
    /\ Ran("createObject")
    /\ last.existed /\ last.hadBody
    /\ last.TYPE = "Light"

\* C4: every body in the body registry or in the solver world belongs to a
\* registered object of the same name, and registry and world agree.
C4_BodiesLinked ==
    /\ \A n \in DOMAIN physicsBodies :
         /\ n \in DOMAIN objects
         /\ physicsBodies[n] \in DOMAIN bodies
         /\ bodies[physicsBodies[n]].name = n
    /\ \A id \in DOMAIN bodies :
         /\ bodies[id].name \in DOMAIN objects
         /\ bodies[id].name \in DOMAIN physicsBodies
         /\ physicsBodies[bodies[id].name] = id

\* an object with a body has just been deleted while another body lives on
C4_Witness ==
    /\ Ran("deleteObject")
    /\ last.hadBody
    /\ bodies # Empty

\* C8: whenever loadSceneJSON fails, the scene afterwards is empty.
C8_FailedLoadEmpties ==
    (Ran("loadSceneJSON") /\ last.thrown) =>
        /\ objects = Empty
        /\ physicsBodies = Empty
        /\ bodies = Empty

\* a load has just failed and objects are still registered
C8_Witness ==
    /\ Ran("loadSceneJSON") /\ last.thrown
    /\ objects # Empty

\* C9: getSceneJSON returns exactly one entry per registered object, and an
\* entry has a physics sub-record exactly when the object has a physics body.
C9_DumpMatchesBodies ==
    LET items == getSceneJSONValue(This).items
    IN /\ Len(items) = Cardinality(DOMAIN objects)
       /\ \A n \in DOMAIN objects :
            Cardinality({i \in 1..Len(items) : items[i].name = n}) = 1
       /\ \A i \in 1..Len(items) :
            items[i].physics.present <=> items[i].name \in DOMAIN physicsBodies

\* the dump gives a physics sub-record to an object that has no physics body
C9_Witness ==
    \E i \in 1..Len(getSceneJSONValue(This).items) :
       LET item == getSceneJSONValue(This).items[i]
       IN /\ item.physics.present
          /\ item.name \in DOMAIN objects
          /\ item.name \notin DOMAIN physicsBodies

TransformOps ==
    {"setPos", "changePosition", "moveObject", "setRot", "changeRotation",
     "setRotYawPitch", "lookAtObject"}

\* the transform call found its object (and, for lookAtObject, its target)
Acted ==
    /\ last.mode = "ran"
    /\ last.existed
    /\ last.op = "lookAtObject" => last.TYPE \in DOMAIN objects

\* C2: right after a direct transform-setting call on a name that has a
\* physics body, the body's position and orientation equal the object's and
\* its linear and angular velocity are zero.
C2_TransformSyncsBody ==
    (last.op \in TransformOps /\ Acted /\ last.NAME \in DOMAIN physicsBodies) =>
        LET body == bodies[physicsBodies[last.NAME]]
            obj == objects[last.NAME]
        IN /\ body.position = obj.position
           /\ body.quaternion = obj.yaw
           /\ body.velocity = VZero
           /\ body.angularVelocity = 0

\* lookAtObject has just been applied to an object whose body was moving
C2_Witness ==
    /\ last.op = "lookAtObject" /\ Acted
    /\ last.NAME \in DOMAIN physicsBodies
    /\ last.moving
    /\ objects[last.NAME].position # VZero

DumpLoaded == last'.op = "loadSceneJSON" /\ last'.TYPE = "dump" /\ last'.mode = "ran"

Dynamic(bs) == {id \in DOMAIN bs : ~bs[id].static}

\* C3: the first stepPhysics call after creation or after a clear only
\* records the time: no body and no object changes.  A later call is not a
\* warm-up: it restarts from the recorded time and, once a full tick has
\* elapsed, the solver has run (gravity has acted on every dynamic body).
C3_FirstStepWarmsUp ==
    [][(last'.op = "stepPhysics" /\ last'.mode = "ran") =>
         IF stepsSinceClear.n = 0
         THEN /\ bodies' = bodies
              /\ objects' = objects
              /\ lastPhysTime' = now
         ELSE /\ lastPhysTime # 0
              /\ lastPhysTime' = now
              /\ (now - lastPhysTime >= TicksPerStep) =>
                   \A id \in Dynamic(bodies) :
                      bodies'[id].velocity[2] < bodies[id].velocity[2]
      ]_vars

\* a warm-up step has just run, after a clear, with a pushed body in the world
C3_Witness ==
    /\ Ran("stepPhysics")
    /\ stepsSinceClear = [n |-> 1, cleared |-> TRUE]
    /\ now > 1
    /\ lastPhysTime = now
    /\ \E id \in DOMAIN bodies : bodies[id].velocity # VZero

C6_RoundTripKeepsColor ==
    [][DumpLoaded =>
         \A n \in DOMAIN objects :
            (isMesh(objects[n]) \/ isLight(objects[n])) =>
               (n \in DOMAIN objects' /\ objects'[n].color = objects[n].color)
      ]_vars

\* C7: after loadSceneJSON(getSceneJSON()) an object has a physics body
\* exactly when it had one before, and for an object with physics the fixed
\* flag, friction, bounciness and mass are what they were.
C7_RoundTripKeepsPhysics ==
    [][DumpLoaded =>
         \A n \in DOMAIN objects :
            /\ (n \in DOMAIN physicsBodies') <=> (n \in DOMAIN physicsBodies)
            /\ (n \in DOMAIN physicsBodies /\ n \in DOMAIN physicsBodies') =>
                 /\ objectPhysData'[n].fixed = objectPhysData[n].fixed
                 /\ objectPhysData'[n].friction = objectPhysData[n].friction
                 /\ objectPhysData'[n].bounciness = objectPhysData[n].bounciness
                 /\ objectPhysData'[n].mass = objectPhysData[n].mass
      ]_vars

Ids(q) == [i \in 1..Len(q) |-> q[i].id]

\* C10: a call made before the engines are loaded leaves the registries
\* untouched until then; every deferred call has run at most once and is
\* otherwise still waiting, in order; after the load was rejected nothing
\* has run and loaded stays false for good; and once the load has resolved
\* every waiting call does run.
C10_DeferredUntilLoaded ==
    /\ [](~loaded =>
            /\ objects = Empty /\ physicsBodies = Empty /\ objectPhysData = Empty
            /\ bodies = Empty /\ bodyToName = Empty
            /\ executed = <<>>)
    /\ [](executed \o Ids(deferred) = [i \in 1..(Len(executed) + Len(deferred)) |-> i])
    /\ [][loadPromise = "rejected" =>
            /\ loadPromise' = "rejected"
            /\ ~loaded'
            /\ executed' = <<>>
            /\ deferred' = deferred]_vars
    /\ [][executed' # executed => (loaded /\ loadPromise = "resolved")]_vars
    /\ (loadPromise = "resolved" ~> deferred = <<>>)

\* two calls were made before the engines loaded and both have now run
C10_Witness ==
    /\ loadPromise = "resolved"
    /\ executed = <<1, 2>>
    /\ deferred = <<>>
    /\ objects # Empty

\* C11: at most one requestAnimationFrame callback is outstanding, and it is
\* outstanding exactly while renderPending is set; a callback is scheduled
\* only when none is pending, so the calls made since the last frame share
\* one; and renderPending is cleared only by the callback that drew a frame.
C11_OneRenderPerFrame ==
    /\ [](rafCallbacks <= 1 /\ (renderPending <=> rafCallbacks = 1))
    /\ [](unrendered > 0 => rafCallbacks = 1)
    /\ [][rafCallbacks' > rafCallbacks => (~renderPending /\ rafCallbacks = 0)]_vars
    /\ [][(renderPending /\ ~renderPending') =>
            (last'.op = "RenderFrame" /\ unrendered' = 0)]_vars

\* two calls have changed the scene since the last frame and share one callback
C11_Witness ==
    /\ unrendered = 2
    /\ rafCallbacks = 1
    /\ Ran("setPos")

NamedOps ==
    TransformOps \cup
    {"deleteObject", "setScale", "setColor", "enablePhysics", "pushObject",
     "setPhysProp", "groupObjects", "ungroupObject", "setCamera", "getPosition",
     "getRotation", "getYawPitch", "getScale", "getDistanceBetween"}

\* C13: a call of an operation that takes a name, on a name under which no
\* object is registered, raises no error, leaves objects, physics bodies,
\* physics metadata and active camera as they are, and a reporter returns
\* its empty value.
C13_UnknownNameIsNoOp ==
    [][(last'.mode = "ran" /\ last'.op \in NamedOps /\ last'.NAME \notin DOMAIN objects) =>
         /\ ~last'.thrown
         /\ objects' = objects
         /\ physicsBodies' = physicsBodies /\ bodies' = bodies
         /\ objectPhysData' = objectPhysData
         /\ activeCamera' = activeCamera
         /\ last'.op \in Reporters => last'.reply = EmptyReply(last'.op)
      ]_vars

\* getPosition of a name nobody created has just raised a TypeError
C13_Witness ==
    /\ Ran("getPosition")
    /\ last.NAME \notin DOMAIN objects
    /\ last.thrown /\ last.reply = "TypeError"

(***************************************************************************)
(* C14: a material or geometry is disposed only if it is a private clone,  *)
(* and a private clone is disposed exactly when the object that owns it    *)
(* has been deleted or replaced: the shared geometries and the shared      *)
(* default material are never disposed, every clone that some registered   *)
(* object still uses is live, and every clone no registered object uses    *)
(* any more is disposed.                                                   *)
(***************************************************************************)
C14_OnlyOwnedClonesDisposed ==
    /\ \A id \in DOMAIN SharedResources : resources[id] = "live"
    /\ \A n \in Names :
         CloneOf(n) \in DOMAIN resources =>
            (resources[CloneOf(n)] = "live"
               <=> (n \in DOMAIN objects /\ objects[n].material = "clone"))

C14_Witness ==
    /\ Ran("deleteObject")
    /\ \E n \in Names : CloneOf(n) \in DOMAIN resources /\ resources[CloneOf(n)] = "disposed"
    /\ \E n \in DOMAIN objects : objects[n].material = "default"

(***************************************************************************)
(* C15: with mesh A at the origin facing -Z and mesh B the only other mesh *)
(* (neither of them grouped), getLookingAt(A) returns B whenever B has     *)
(* been placed on the -Z axis within the render distance, and the empty    *)
(* string whenever B has been placed on the +Z axis, whether or not a      *)
(* frame was rendered since B was placed.                                  *)
(***************************************************************************)
LookScene ==
    /\ Ran("getLookingAt") /\ last.NAME = "A" /\ ~last.thrown
    /\ {"A", "B"} \subseteq DOMAIN objects
    /\ isMesh(objects["A"]) /\ isMesh(objects["B"])
    /\ Targets(This, "A") = {"B"}
    /\ objects["A"].position = VZero /\ objects["A"].yaw = 0
    /\ objects["B"].position[1] = 0 /\ objects["B"].position[2] = 0

C15_LooksAtAfterPlacing ==
    LookScene =>
       /\ (objects["B"].position[3] < 0
             /\ -objects["B"].position[3] <= config.renderDistance) => last.reply = "B"
       /\ objects["B"].position[3] > 0 => last.reply = ""

C15_Witness ==
    /\ LookScene
    /\ objects["B"].position = <<0, 0, -1>>
    /\ last.reply = ""

(***************************************************************************)
(* C16: getLookingAt returns the empty string or the name of a registered  *)
(* mesh other than the queried object, never a Light or a Camera; no mesh  *)
(* in front of the queried object on its line of sight is nearer than the  *)
(* one returned; and the one returned is not farther away than the render  *)
(* distance.                                                               *)
(***************************************************************************)
\* how far in front of the viewer the object named k is (tenths; -1: not on
\* the line of sight), from the positions the objects have now
Sighted(viewer, k) ==
    Entry(objects[viewer].position, RotY(objects[viewer].yaw, <<0, 0, -1>>),
          WorldXf(objects, k).position, objects[k].type)

C16_ReportsNearestMeshInRange ==
    (Ran("getLookingAt") /\ ~last.thrown /\ last.NAME \in DOMAIN objects /\ last.reply # "") =>
       /\ last.reply \in DOMAIN objects \ {last.NAME}
       /\ isMesh(objects[last.reply])
       /\ Sighted(last.NAME, last.reply) >= Near
       /\ Sighted(last.NAME, last.reply) <= 10 * config.renderDistance
       /\ \A k \in Targets(This, last.NAME) :
            Sighted(last.NAME, k) >= Near
               => Sighted(last.NAME, last.reply) <= Sighted(last.NAME, k)

\* the part of C16 that the stale matrices leave intact
LookReturnsAnotherMesh ==
    (Ran("getLookingAt") /\ ~last.thrown /\ last.NAME \in DOMAIN objects /\ last.reply # "") =>
       /\ last.reply \in DOMAIN objects \ {last.NAME}
       /\ isMesh(objects[last.reply])

C16_Witness ==
    /\ Ran("getLookingAt") /\ last.reply = "B"
    /\ objects["B"].position = <<0, 0, 2>> /\ objects["A"].yaw = 0
    /\ objects["A"].position = VZero

(***************************************************************************)
(* C17: a mesh with physics enabled, not fixed, under the default gravity  *)
(* and with nothing under it: a stepPhysics call that follows an earlier   *)
(* one leaves the object strictly lower than it was.                       *)
(* As stated (for every positive elapsed time) this fails when less than   *)
(* one fixed tick has become due; it holds whenever the call runs at least *)
(* one fixed tick and the body is not moving upwards.                      *)
(***************************************************************************)
\* a stepPhysics call other than the warm-up one is about to move object n,
\* whose body is dynamic and not rising, after some time has passed
Falling(n) ==
    /\ last'.op = "stepPhysics" /\ last'.mode = "ran"
    /\ lastPhysTime # 0 /\ now > lastPhysTime
    /\ n \in DOMAIN objects /\ n \in DOMAIN physicsBodies
    /\ objects[n].parent = "scene"
    /\ ~bodies[physicsBodies[n]].static
    /\ bodies[physicsBodies[n]].velocity[2] <= 0

C19_StepCopiesBodiesToObjects ==
    [][(last'.op = "stepPhysics" /\ last'.mode = "ran" /\ lastPhysTime # 0) =>
         /\ \A n \in DOMAIN physicsBodies' \cap DOMAIN objects' :
              /\ objects'[n].position = bodies'[physicsBodies'[n]].position
              /\ objects'[n].yaw = bodies'[physicsBodies'[n]].quaternion
         /\ bodies' = internalSteps(bodies, last'.subSteps)
         /\ physicsBodies' = physicsBodies
         /\ renderPending' /\ rafCallbacks' = 1
      ]_vars

\* a step, taken with no render pending, has moved a body and its object
C19_Witness ==
    /\ Ran("stepPhysics") /\ last.subSteps > 0
    /\ unrendered = 1 /\ renderPending
    /\ \E n \in DOMAIN physicsBodies :
         /\ bodies[physicsBodies[n]].position[2] < 0
         /\ objects[n].position = bodies[physicsBodies[n]].position

(***************************************************************************)
(* C20: the rot member of every getSceneJSON entry is the rotation in      *)
(* degrees, the same number that getRotation reports for the object.       *)
(***************************************************************************)
C20_RotMemberInDegrees ==
    \A i \in 1..Len(getSceneJSONValue(This).items) :
       getSceneJSONValue(This).items[i].rot
          = getRotationValue(This, getSceneJSONValue(This).items[i].name)

\* setRot has turned an object by 90 degrees: getRotation reports 90, the
\* entry holds pi / 2
C20_Witness ==
    /\ Ran("setRot") /\ Has(objects, last.NAME)
    /\ getRotationValue(This, last.NAME) = QuarterTurnDegrees
    /\ EntryOf(This, last.NAME).rot = QuarterTurnRadians

(***************************************************************************)
(* C21: immediately after deleteAllObjects the object registry is empty,   *)
(* no body is registered or present in the solver world, the active camera *)
(* is cleared and the physics clock is reset, whatever create,             *)
(* enablePhysics, group and setCamera calls came before.                   *)
(***************************************************************************)
C21_DeleteAllClears ==
    [][(last'.op = "deleteAllObjects" /\ last'.mode = "ran") =>
         /\ objects' = Empty
         /\ physicsBodies' = Empty
         /\ bodies' = Empty
         /\ activeCamera' = "null"
         /\ lastPhysTime' = 0
      ]_vars

\* the call found two objects, a body in the world, an active camera and a
\* running clock
C21_Witness ==
    /\ Ran("deleteAllObjects")
    /\ last.found.objects = Names /\ last.found.bodies # {}
    /\ last.found.camera = "B" /\ last.found.clock # 0
    /\ objects = Empty /\ activeCamera = "null"

\* the same call in a scene whose mesh had lost its body to groupObjects
C21_WitnessGrouped ==
    /\ Ran("deleteAllObjects")
    /\ last.found.objects = Names /\ last.found.bodies = {}
    /\ bodyToName # Empty

(***************************************************************************)
(* C22: no Light or Camera object has a physics body; enablePhysics on     *)
(* such an object, called directly or by loadSceneJSON, creates no body    *)
(* and no physics metadata.                                                *)
(***************************************************************************)
C22_NoBodyForLightOrCamera ==
    [][/\ \A n \in DOMAIN objects' :
            ~isMesh(objects'[n]) =>
               /\ ~Has(physicsBodies', n)
               /\ \A id \in DOMAIN bodies' : bodies'[id].name # n
       /\ (/\ last'.op = "enablePhysics" /\ last'.mode = "ran"
           /\ Has(objects, last'.NAME) /\ ~isMesh(objects[last'.NAME]))
          => UNCHANGED <<bodies, physicsBodies, bodyToName, objectPhysData>>
       /\ (last'.op = "loadSceneJSON" /\ last'.mode = "ran")
          => \A n \in DOMAIN objects' :
                (~isMesh(objects'[n]) /\ Has(objectPhysData', n))
                   => Has(objectPhysData, n)
      ]_vars

\* a document asking for physics on a light has been loaded: the light is
\* there, with no entry in the physics registries
C22_Witness ==
    /\ Ran("loadSceneJSON") /\ ~last.thrown
    /\ Has(objects, "A") /\ isLight(objects["A"]) /\ Has(objects, "B")
    /\ ~Has(physicsBodies, "A") /\ ~Has(objectPhysData, "A")

\* enablePhysics has been called on a camera next to a mesh with a body
C22_WitnessDirect ==
    /\ Ran("enablePhysics") /\ last.existed
    /\ objects[last.NAME].type = "Camera" /\ bodies # Empty

(***************************************************************************)
(* C23: setColor and setTexture on one mesh change no other object and not *)
(* the shared default material (any object still on it is white and has no *)
(* texture); the first edit gives the mesh a private clone of the          *)
(* material, later edits reuse that clone.                                 *)
(***************************************************************************)
C23_EditsTouchOneMaterial ==
    [][(last'.op \in {"setColor", "setTexture"} /\ last'.mode = "ran") =>
         /\ DOMAIN objects' = DOMAIN objects
         /\ \A n \in DOMAIN objects \ {last'.NAME} : objects'[n] = objects[n]
         /\ \A id \in DOMAIN resources' \ {CloneOf(last'.NAME)} :
               id \in DOMAIN resources /\ resources'[id] = resources[id]
         /\ \A n \in DOMAIN objects' :
               objects'[n].material = "default"
                  => objects'[n].color = WHITE /\ ~objects'[n].map
         /\ (Has(objects, last'.NAME) /\ isMesh(objects[last'.NAME])) =>
               /\ objects'[last'.NAME].material = "clone"
               /\ resources'[CloneOf(last'.NAME)] = "live"
               /\ objects[last'.NAME].material = "clone" => resources' = resources
      ]_vars

\* a second edit of a mesh, next to a mesh that is still on the default
\* material
C23_Witness ==
    /\ Ran("setColor") /\ last.hadMaterial = "clone"
    /\ objects[last.NAME].color = 255
    /\ \E n \in DOMAIN objects : objects[n].material = "default"

(***************************************************************************)
(* C30: when the object named in a setTexture call has been deleted or     *)
(* replaced before the texture arrives, the completion callback changes no *)
(* registered object, in particular not a new object under the same name,  *)
(* and not the shared default material; a callback whose object is still   *)
(* registered changes that object only.                                    *)
(***************************************************************************)
C30_LateTextureTouchesNothingRegistered ==
    [][last'.op = "TextureLoaded" =>
         /\ DOMAIN objects' = DOMAIN objects
         /\ resources' = resources
         /\ ~last'.existed => objects' = objects
         /\ \A n \in DOMAIN objects :
               objects'[n] # objects[n] =>
                  n = last'.NAME /\ objects[n].material = "clone"
         /\ \A n \in DOMAIN objects' : objects'[n].material = "default" => ~objects'[n].map
      ]_vars

\* the texture arrived after its object had been replaced by a new mesh of
\* the same name, which is on the default material
C30_Witness ==
    /\ last.op = "TextureLoaded" /\ ~last.existed
    /\ Has(objects, last.NAME) /\ objects[last.NAME].material = "default"
    /\ renderPending

(***************************************************************************)
(* C24: the active camera is either none or a Camera object that is        *)
(* registered; once the active camera has been deleted, or replaced by     *)
(* createObject under its name, no frame is rendered through it.           *)
(***************************************************************************)
C24_ActiveCameraRegistered ==
    \/ activeCamera = "null"
    \/ Has(objects, activeCamera) /\ isCamera(objects[activeCamera])

\* a frame rendered through a camera that createObject has replaced: the
\* new camera of that name is registered and is not the active one
C24_Witness ==
    /\ last.op = "RenderFrame" /\ activeCamera = "dead"
    /\ Has(objects, "B") /\ isCamera(objects["B"])

(***************************************************************************)
(* C25: in every state reached by enablePhysics, transform calls,          *)
(* pushObject, stepPhysics, groupObjects and ungroupObject, every object   *)
(* that has a physics body is at the position of that body.                *)
(***************************************************************************)
C25_ObjectAtItsBody ==
    \A n \in DOMAIN physicsBodies \cap DOMAIN objects :
       objects[n].position = bodies[physicsBodies[n]].position

\* ungroupObject has moved an object that has a body, and not the body
C25_Witness ==
    /\ Ran("ungroupObject") /\ last.existed /\ last.hadBody
    /\ objects[last.NAME].parent = "scene"
    /\ objects[last.NAME].position = <<0, 1, 0>>
    /\ bodies[physicsBodies[last.NAME]].position = VZero

(***************************************************************************)
(* C26: over createObject, deleteObject, groupObjects and ungroupObject    *)
(* every registered object is attached to the scene graph, reachable from  *)
(* the scene root; deleting or replacing a parent leaves no child          *)
(* registered but detached.                                                *)
(***************************************************************************)
C26_RegisteredObjectsAttached ==
    \A n \in DOMAIN objects : Attached(objects, n, Cardinality(Names))

\* deleteObject has removed a parent: its child is registered, and its
\* parent is the removed node
C26_Witness ==
    /\ Ran("deleteObject") /\ last.existed
    /\ \E n \in DOMAIN objects : objects[n].parent = "dead"

(***************************************************************************)
(* C27: after any sequence of groupObjects and ungroupObject calls the     *)
(* parent relation has no cycle.                                           *)
(***************************************************************************)
C27_ParentsAcyclic ==
    \A n \in DOMAIN objects : ~Cyclic(objects, n, Cardinality(Names))

\* group(A into B), then group(B into A): each is the parent of the other
C27_Witness ==
    /\ Ran("groupObjects")
    /\ Has(objects, "A") /\ Has(objects, "B")
    /\ objects["A"].parent = "B" /\ objects["B"].parent = "A"

(***************************************************************************)
(* C29: getTouching returns only names of objects that are registered and  *)
(* have a physics body in the solver world, never the name of an object    *)
(* whose body deleteObject, a replacing createObject or groupObjects has   *)
(* removed.                                                                *)
(***************************************************************************)
C29_TouchingHaveBodies ==
    Ran("getTouching") =>
       \A n \in last.touching :
          /\ Has(objects, n)
          /\ Has(physicsBodies, n)
          /\ physicsBodies[n] \in DOMAIN bodies

\* getTouching('A') returns B, whose body groupObjects has removed
C29_Witness ==
    /\ Ran("getTouching") /\ last.NAME = "A" /\ last.touching = {"B"}
    /\ Has(objects, "B") /\ objects["B"].parent = "A"
    /\ ~Has(physicsBodies, "B")

\* the same, B deleted after it was grouped
C29_WitnessDeleted ==
    /\ Ran("getTouching") /\ last.NAME = "A" /\ last.touching = {"B"}
    /\ ~Has(objects, "B")

\* getTouching('A') returns B while both have their bodies
C29_WitnessTouching ==
    /\ Ran("getTouching") /\ last.NAME = "A" /\ last.touching = {"B"}
    /\ Has(physicsBodies, "B") /\ physicsBodies["B"] \in DOMAIN bodies

(***************************************************************************)
(* C28: the calls made before the engines are loaded take effect once the  *)
(* load resolves, in the order in which they were made and before any call *)
(* made afterwards; createObject(n) followed by setPos(n), both made       *)
(* before the load, end with n at the requested position.                  *)
(***************************************************************************)
C28_DeferredCallsRunInOrder ==
    /\ [][/\ \A i \in DOMAIN executed' : \A j \in DOMAIN executed' :
               i < j => executed'[i] < executed'[j]
          /\ executed' # executed =>
               /\ deferred # <<>>
               /\ executed' = Append(executed, Head(deferred).id)
               /\ deferred' = Tail(deferred)
               /\ last'.op = Head(deferred).call.op /\ last'.mode = "ran"
          /\ (last'.mode = "ran" /\ executed' = executed) => deferred = <<>>
          /\ (/\ executed = <<1>> /\ executed' = <<1, 2>>
              /\ last.op = "createObject" /\ last'.op = "setPos"
              /\ last.NAME = last'.NAME)
             => /\ Has(objects', last'.NAME)
                /\ objects'[last'.NAME].position = <<1, 2, -3>>
          ]_vars
    /\ ((loadPromise = "resolved" /\ deferred # <<>>) ~> deferred = <<>>)

\* createObject and setPos of the same name, both queued before the load,
\* have run: the object is at the requested position
C28_Witness ==
    /\ executed = <<1, 2>> /\ deferred = <<>>
    /\ Ran("setPos") /\ last.existed
    /\ objects[last.NAME].position = <<1, 2, -3>>
====
